---- MODULE Spec2Model ----
(***************************************************************************)
(* Model of the recursion tracer: the Python prelude TRACER_PY             *)
(* (src/src/tracerPrelude.ts), and the layout and run harness of           *)
(* src/src/App.tsx.                                                        *)
(*                                                                         *)
(*   Spec        one trace session of the prelude: user code has been      *)
(*               decorated with trace(tree) and a call expression is       *)
(*               being evaluated.                                          *)
(*   SpecLayout  computeTreeLayout applied to a parsed node list.          *)
(*   SpecRun     the run harness handleRunClick: the script it builds is   *)
(*               executed step by step, the trace session included.        *)
(***************************************************************************)
EXTENDS Integers, Sequences, FiniteSets, TLC

\* ---------------------------------------------------------------- bounds
\* Most traced invocations begun by the arbitrary call expression.
MaxCalls == 4
\* Deepest nesting of active traced calls in the arbitrary call expression.
MaxDepth == 3
\* Longest node list handed to computeTreeLayout, and the largest id in it.
MaxNodes == 3
MaxId == 2
\* computeTreeLayout is invoked at most this many times on one node list.
MaxLayoutRuns == 2
\* The evaluated code prints at most this many lines.
MaxPrints == 1
\* The wire arrays have at most this many items.
MaxWire == 2
\* The rendered tables have at most this many nodes.
MaxTable == 4
\* Frames the JavaScript engine allows before it throws RangeError
\* ("Maximum call stack size exceeded").
StackLimit == 6

\* ------------------------------------------------------------- constants
\* Python's None (the parent of a call begun with an empty stack).
None == -1

\* The wrapped functions of the user code: fib is the function of the
\* concrete scenario, f and g have arbitrary bodies.
Fns == {"fib", "f", "g"}
FreeFns == {"f", "g"}

VARIABLES
    tree,       \* tree_dict: the dict {id: (parent, args, kwargs, result)},
                \* as the sequence of its items in insertion order
    next_id,    \* next_id of each deco closure (one per wrapped function)
    stack,      \* stack of each deco closure (one per wrapped function)
    frames,     \* the interpreter's active wrapper invocations, outermost first
    exc,        \* TRUE while an exception is propagating
    phase,      \* "running" | "returned" | "raised": the call expression
    expr,       \* the call expression evaluated: "fib(3)" or "any"
    calls,      \* history: every invocation begun, in call-start order
    nodes,      \* computeTreeLayout: the TraceNode[] argument
    layout,     \* computeTreeLayout: the LayoutResult, or the error thrown
    layoutRuns, \* history: how many times computeTreeLayout has been invoked
    code, callExpression,                       \* React state: the inputs
    error, result, stdout, treeOutput, graphData,  \* React state: the outputs
    isRunning, pyodideReady,                    \* React state: the flags
    pyGlobals,  \* names defined in the guest namespace (pyodide.globals)
    runPc,      \* position of the run in the script built by handleRunClick
    stdoutCapture,  \* guest: the text written to _stdout_capture
    user_stdout,    \* guest: the variable user_stdout
    excMsg,     \* the message of the exception propagating or escaped, else ""
    call_tree_output,  \* guest: the variable call_tree_output
    call_tree_json     \* guest: the variable call_tree_json, as the JSON value
                       \* its text denotes

rvars == <<tree, next_id, stack, frames, exc, phase, expr, calls>>
lvars == <<nodes, layout, layoutRuns>>
hvars == <<code, callExpression, error, result, stdout, treeOutput, graphData,
           isRunning, pyodideReady, pyGlobals, runPc>>
gvars == <<stdoutCapture, user_stdout, excMsg, call_tree_output, call_tree_json>>
\* the guest variables the script sets after the evaluation
jvars == <<call_tree_output, call_tree_json>>
vars == <<rvars, lvars, hvars, gvars>>

\* ------------------------------------------------------- Python helpers
Last(s) == s[Len(s)]
Pop(s) == SubSeq(s, 1, Len(s) - 1)

\* dict keys, in insertion order
Keys(t) == [i \in 1..Len(t) |-> t[i].id]
KeySet(t) == {t[i].id : i \in 1..Len(t)}
\* tree[k]
Get(t, k) == t[CHOOSE i \in 1..Len(t) : t[i].id = k]
\* tree[k] = v: a new key is appended, an existing key keeps its position
DictSet(t, k, v) ==
    IF k \in KeySet(t)
    THEN [i \in 1..Len(t) |-> IF t[i].id = k THEN v ELSE t[i]]
    ELSE Append(t, v)

\* ------------------------------------------------------------- Recorder
\* parent = stack[-1] if stack else None
ParentOfBottom(stk) == IF stk # <<>> THEN stk[1] ELSE None
ParentOf(stk) == IF stk # <<>> THEN Last(stk) ELSE None

\* try: result = fn(...); tree_dict[my_id] = (parent, args, kwargs, result)
\* The node is stored only when the body returned (ok); `fn` is history,
\* naming the wrapper that stored the node.
TreeAfterBodyInFinally(t, fr, ok, res) ==
    DictSet(t, fr.my_id, [id |-> fr.my_id, parent |-> fr.parent,
                          args |-> fr.arg, result |-> res, fn |-> fr.fn])
TreeAfterBodySkipsRoot(t, fr, ok, res) ==
    IF ok /\ fr.parent # None
    THEN DictSet(t, fr.my_id, [id |-> fr.my_id, parent |-> fr.parent,
                               args |-> fr.arg, result |-> res, fn |-> fr.fn])
    ELSE t
TreeAfterBody(t, fr, ok, res) ==
    IF ok
    THEN DictSet(t, fr.my_id, [id |-> fr.my_id, parent |-> fr.parent,
                               args |-> fr.arg, result |-> res, fn |-> fr.fn])
    ELSE t

\* finally: stack.pop()  -- runs whether the body returned or raised
WrapperExitNoFinally(stk, ok) == IF ok THEN Pop(stk) ELSE stk
WrapperExit(stk, ok) == Pop(stk)

\* ------------------------------------------------- Indexer and renderer
\* the ids of the items of t recorded with parent par, in insertion order
IdsWithParent(t, par) ==
    LET sel == SelectSeq(t, LAMBDA n : n.parent = par)
    IN [i \in 1..Len(sel) |-> sel[i].id]

\* _build_children: children[par] lists the ids recorded with parent par
\* (par = None included); roots lists the ids with parent None
BuildChildren(t) ==
    [children |-> [p \in {t[i].parent : i \in 1..Len(t)} |-> IdsWithParent(t, p)],
     roots |-> IdsWithParent(t, None)]

\* children.get(nid, [])
ChildrenGet(children, nid) ==
    IF nid \in DOMAIN children THEN children[nid] ELSE <<>>

\* The connectors and prefix segments of print_ascii_tree, in ASCII:
\* LastConn is the corner connector, MidConn the tee connector, BarSeg the
\* vertical-bar segment and GapSeg the four-space segment.
LastConn == "L-- "
MidConn == "+-- "
BarSeg == "|   "
GapSeg == "    "

\* One printed line: the prefix segments, the connector and the labelled id.
Line(prefix, connector, nid) ==
    [prefix |-> prefix, connector |-> connector, nid |-> nid]
\* print()
BlankLine == Line(<<>>, "", None)

RECURSIVE Recurse(_, _, _, _)
RECURSIVE RecurseKids(_, _, _, _)
RecurseGapOnly(children, nid, prefix, is_last) ==
    <<Line(prefix, IF is_last THEN LastConn ELSE MidConn, nid)>>
    \o RecurseKids(children, ChildrenGet(children, nid), 1, Append(prefix, GapSeg))
\* _recurse(nid, prefix, is_last): the lines it prints
Recurse(children, nid, prefix, is_last) ==
    <<Line(prefix, IF is_last THEN LastConn ELSE MidConn, nid)>>
    \o RecurseKids(children, ChildrenGet(children, nid), 1,
                   Append(prefix, IF is_last THEN GapSeg ELSE BarSeg))
\* for i, c in enumerate(kids): _recurse(c, prefix, i == len(kids) - 1)
RecurseKids(children, kids, i, prefix) ==
    IF i > Len(kids) THEN <<>>
    ELSE Recurse(children, kids[i], prefix, i = Len(kids))
         \o RecurseKids(children, kids, i + 1, prefix)

RECURSIVE PrintRoots(_, _, _)
\* for r_i, r in enumerate(roots): the root's label, its subtree, a blank
\* line unless it is the last root
PrintRoots(children, roots, r_i) ==
    IF r_i > Len(roots) THEN <<>>
    ELSE <<Line(<<>>, "", roots[r_i])>>
         \o RecurseKids(children, ChildrenGet(children, roots[r_i]), 1, <<>>)
         \o (IF r_i # Len(roots) THEN <<BlankLine>> ELSE <<>>)
         \o PrintRoots(children, roots, r_i + 1)

\* print_ascii_tree(tree): the lines printed
PrintAsciiTree(t) ==
    LET built == BuildChildren(t) IN PrintRoots(built.children, built.roots, 1)

\* The argument of the call expression fib(n); the expression "untraced"
\* calls no wrapped function.
FibArg(e) == IF e = "fib(3)" THEN 3 ELSE IF e = "fib(5)" THEN 5 ELSE None

\* The body of the innermost active call may begin a call of f with argument a.
\* fib(n) = n if n < 2 else fib(n-1) + fib(n-2); f and g are arbitrary.
MayCall(f, a) ==
    IF frames = <<>>
    THEN IF expr = "any"
         THEN f \in FreeFns /\ a = 0
         ELSE calls = <<>> /\ f = "fib" /\ a = FibArg(expr)
    ELSE LET top == Last(frames) IN
         IF top.fn = "fib"
         THEN f = "fib" /\ top.arg >= 2 /\ top.pc < 2 /\ a = top.arg - 1 - top.pc
         ELSE f \in FreeFns /\ a = 0

\* wrapper, lines 13-17: allocate the id, read the parent, push, enter the body
Call(f, a) ==
    /\ phase = "running" /\ ~exc
    /\ MayCall(f, a)
    /\ expr = "any" => Len(calls) < MaxCalls /\ Len(frames) < MaxDepth
    /\ LET my_id == next_id[f]
           parent == ParentOf(stack[f])
           uid == Len(calls) + 1
           caller == IF frames = <<>> THEN None ELSE Last(frames).uid
       IN /\ next_id' = [next_id EXCEPT ![f] = my_id + 1]
          /\ stack' = [stack EXCEPT ![f] = Append(@, my_id)]
          /\ frames' = Append(frames, [fn |-> f, my_id |-> my_id, parent |-> parent,
                                       arg |-> a, pc |-> 0, acc |-> 0,
                                       uid |-> uid, pre |-> stack])
          /\ calls' = Append(calls, [fn |-> f, id |-> my_id, parent |-> parent,
                                     caller |-> caller, outcome |-> "active"])
    /\ UNCHANGED <<tree, exc, phase, expr>>
    /\ UNCHANGED <<lvars, hvars, gvars>>

\* The value a body returns: fib's value, 0 for the arbitrary functions.
ResultOf(fr) == IF fr.fn = "fib" /\ fr.arg < 2 THEN fr.arg ELSE fr.acc

\* The caller's body resumes after a nested call: it has one more call behind it.
Resume(fs, res) ==
    IF fs = <<>> THEN fs
    ELSE [fs EXCEPT ![Len(fs)] = [@ EXCEPT !.pc = @ + 1, !.acc = @ + res]]

\* wrapper, lines 19-23 on success: the body returns, the node is stored,
\* the stack is popped, the result goes to the caller
Return ==
    /\ phase = "running" /\ ~exc /\ frames # <<>>
    /\ LET top == Last(frames) IN
       /\ top.fn = "fib" => (top.arg < 2 \/ top.pc = 2)
       /\ tree' = TreeAfterBody(tree, top, TRUE, ResultOf(top))
       /\ stack' = [stack EXCEPT ![top.fn] = WrapperExit(@, TRUE)]
       /\ frames' = Resume(Pop(frames), ResultOf(top))
       /\ calls' = [calls EXCEPT ![top.uid].outcome = "returned"]
    /\ UNCHANGED <<next_id, exc, phase, expr>>
    /\ UNCHANGED <<lvars, hvars, gvars>>

\* raise Exception(...) in the body of fn: the message of the exception
MessageOf(fn) == "boom in " \o fn

\* wrapper, lines 19-23 on failure: the body of the innermost call raises,
\* or lets the exception of a nested call through; nothing is stored, the
\* stack is popped and the exception leaves the wrapper
Raise ==
    /\ phase = "running" /\ frames # <<>>
    /\ LET top == Last(frames) IN
       /\ top.fn \in FreeFns
       /\ tree' = TreeAfterBody(tree, top, FALSE, 0)
       /\ stack' = [stack EXCEPT ![top.fn] = WrapperExit(@, FALSE)]
       /\ frames' = Pop(frames)
       /\ calls' = [calls EXCEPT ![top.uid].outcome = "raised"]
       /\ excMsg' = IF exc THEN excMsg ELSE MessageOf(top.fn)
    /\ exc' = TRUE
    /\ UNCHANGED <<next_id, phase, expr>>
    /\ UNCHANGED <<lvars, hvars, stdoutCapture, user_stdout, jvars>>

\* The code around the failed call (the body of the enclosing call, or the
\* untraced code of the call expression) catches the exception.
Catch ==
    /\ phase = "running" /\ exc
    /\ exc' = FALSE
    /\ excMsg' = ""
    /\ frames' = Resume(frames, 0)
    /\ UNCHANGED <<tree, next_id, stack, phase, expr, calls>>
    /\ UNCHANGED <<lvars, hvars, stdoutCapture, user_stdout, jvars>>

\* The call expression has returned.
Finish ==
    /\ phase = "running" /\ ~exc /\ frames = <<>>
    /\ expr \in {"fib(3)", "fib(5)"} => calls # <<>>
    /\ phase' = "returned"
    /\ UNCHANGED <<tree, next_id, stack, frames, exc, expr, calls>>
    /\ UNCHANGED <<lvars, hvars, gvars>>

\* The call expression has raised.
Escape ==
    /\ phase = "running" /\ exc /\ frames = <<>>
    /\ phase' = "raised"
    /\ exc' = FALSE
    /\ UNCHANGED <<tree, next_id, stack, frames, expr, calls>>
    /\ UNCHANGED <<lvars, hvars, gvars>>

\* ------------------------------------------------------------- Layout
horizontalSpacing == 9
verticalSpacing == 7
\* depthSpacing = 2.8 and the per-depth skew 0.6, in tenths
depthSpacingTenths == 28
depthSkewTenths == 6

RECURSIVE PositionedInit(_, _)
\* nodes.forEach: positioned.set(node.id, {...node, depth: 0, x: 0, y: 0, z: 0})
\* x2 is twice x and z10 ten times z, so that the coordinates are integers.
PositionedInit(ns, i) ==
    IF i = 0 THEN <<>>
    ELSE DictSet(PositionedInit(ns, i - 1), ns[i].id,
                 [id |-> ns[i].id, parent |-> ns[i].parent,
                  depth |-> 0, x2 |-> 0, y |-> 0, z10 |-> 0])

\* nodes.forEach: childMap.get(node.parent).push(node.id) when parent !== null
ChildMap(ns) ==
    [p \in {ns[i].parent : i \in 1..Len(ns)} \ {None} |-> IdsWithParent(ns, p)]

RECURSIVE AssignDepth(_, _, _, _, _)
RECURSIVE AssignChildren(_, _, _, _, _, _)
\* assignDepth(id, depth), called with `level` frames of it on the stack.
\* st = [depth, visited, overflow]; overflow is the RangeError the engine
\* throws when the recursion exceeds its stack.
AssignDepthOnce(st, childMap, id, depth, level) ==
    IF st.overflow THEN st
    ELSE IF level > StackLimit THEN [st EXCEPT !.overflow = TRUE]
    ELSE IF id \notin DOMAIN st.depth \/ id \in st.visited THEN st
    ELSE AssignChildren([st EXCEPT !.depth[id] = depth, !.visited = @ \cup {id}],
                        childMap, ChildrenGet(childMap, id), 1, depth + 1, level + 1)
AssignDepth(st, childMap, id, depth, level) ==
    IF st.overflow THEN st
    ELSE IF level > StackLimit THEN [st EXCEPT !.overflow = TRUE]
    ELSE IF id \notin DOMAIN st.depth THEN st
    ELSE AssignChildren([st EXCEPT !.depth[id] = depth, !.visited = @ \cup {id}],
                        childMap, ChildrenGet(childMap, id), 1, depth + 1, level + 1)
\* children.forEach((childId) => assignDepth(childId, depth + 1))
AssignChildren(st, childMap, kids, i, depth, level) ==
    IF i > Len(kids) \/ st.overflow THEN st
    ELSE AssignChildren(AssignDepth(st, childMap, kids[i], depth, level),
                        childMap, kids, i + 1, depth, level)

RECURSIVE RootPass(_, _, _, _)
\* positioned.forEach: if (node.parent === null) assignDepth(node.id, 0)
RootPass(st, childMap, pos, i) ==
    IF i > Len(pos) \/ st.overflow THEN st
    ELSE RootPass(IF pos[i].parent = None
                  THEN AssignDepth(st, childMap, pos[i].id, 0, 1) ELSE st,
                  childMap, pos, i + 1)

RECURSIVE UnvisitedPass(_, _, _, _)
\* positioned.forEach: if (!visited.has(node.id)) assignDepth(node.id, 0)
UnvisitedPass(st, childMap, pos, i) ==
    IF i > Len(pos) \/ st.overflow THEN st
    ELSE UnvisitedPass(IF pos[i].id \notin st.visited
                       THEN AssignDepth(st, childMap, pos[i].id, 0, 1) ELSE st,
                       childMap, pos, i + 1)

\* The depths after both passes.
Depths(ns) ==
    LET pos == PositionedInit(ns, Len(ns))
        st0 == [depth |-> [k \in KeySet(pos) |-> 0], visited |-> {}, overflow |-> FALSE]
    IN UnvisitedPass(RootPass(st0, ChildMap(ns), pos, 1), ChildMap(ns), pos, 1)

\* levels.get(depth) after levelNodes.sort((a, b) => a.id - b.id): the index
\* of id in its level, and the size of the level
LevelIndexDescending(depth, id) ==
    Cardinality({k \in DOMAIN depth : depth[k] = depth[id] /\ k > id})
LevelIndex(depth, id) ==
    Cardinality({k \in DOMAIN depth : depth[k] = depth[id] /\ k < id})
LevelCount(depth, id) ==
    Cardinality({k \in DOMAIN depth : depth[k] = depth[id]})

\* levels.forEach / levelNodes.forEach: the coordinates of one node
Place(n, depth) ==
    LET index == LevelIndex(depth, n.id)
        count == LevelCount(depth, n.id)
        d == depth[n.id]
    IN [n EXCEPT !.depth = d,
                 !.x2 = 2 * index * horizontalSpacing - (count - 1) * horizontalSpacing,
                 !.y = (0 - d) * verticalSpacing,
                 !.z10 = index * depthSpacingTenths
                         - (count - 1) * (depthSpacingTenths \div 2)
                         + d * depthSkewTenths]

\* positioned.forEach: edges.push({from: node.parent, to: node.id}) when the
\* parent is non-null and positioned.has(node.parent)
EdgesToAnyParent(pos) ==
    LET sel == SelectSeq(pos, LAMBDA n : n.parent # None)
    IN [i \in 1..Len(sel) |-> [from |-> sel[i].parent, to |-> sel[i].id]]
Edges(pos) ==
    LET sel == SelectSeq(pos, LAMBDA n : n.parent # None /\ n.parent \in KeySet(pos))
    IN [i \in 1..Len(sel) |-> [from |-> sel[i].parent, to |-> sel[i].id]]

\* computeTreeLayout(nodes): the LayoutResult, or the RangeError thrown
computeTreeLayout(ns) ==
    LET pos == PositionedInit(ns, Len(ns))
        st == Depths(ns)
    IN IF st.overflow
       THEN [status |-> "RangeError", nodes |-> <<>>, edges |-> <<>>]
       ELSE [status |-> "ok",
             nodes |-> [i \in 1..Len(pos) |-> Place(pos[i], st.depth)],
             edges |-> Edges(pos)]

\* No layout has been asked for.
LayoutIdle ==
    /\ nodes = <<>>
    /\ layout = [status |-> "pending", nodes |-> <<>>, edges |-> <<>>]
    /\ layoutRuns = 0

\* The node lists handed to computeTreeLayout: distinct ids, any order, any
\* parent field (null, present, absent, cyclic).
TraceNodes == [id : 0..MaxId, parent : {None} \cup (0..MaxId)]
NodeLists ==
    {ns \in UNION {[1..n -> TraceNodes] : n \in 0..MaxNodes} :
        \A i, j \in 1..Len(ns) : i # j => ns[i].id # ns[j].id}

\* The argument array after a call: positioned holds spread copies
\* ({...node, ...}), so the writes of depth, x, y, z and the sort of each
\* level reach the copies and the level arrays only.
InputAfterLayoutAliased(ns) ==
    LET lay == computeTreeLayout(ns)
    IN IF lay.status = "ok"
       THEN [i \in 1..Len(ns) |-> Get(lay.nodes, ns[i].id)]
       ELSE ns
InputAfterLayout(ns) == ns

\* const layout = computeTreeLayout(graphData): the scene effect runs it
\* again on the same array when it is set up again
Layout ==
    /\ layoutRuns < MaxLayoutRuns
    /\ layout' = computeTreeLayout(nodes)
    /\ nodes' = InputAfterLayout(nodes)
    /\ layoutRuns' = layoutRuns + 1
    /\ UNCHANGED <<rvars, hvars, gvars>>

\* ------------------------------------------------------------ Harness
\* JavaScript null
Null == "null"
\* call_tree_json = "[]"
EmptyWire == [kind |-> "array", items |-> <<>>]
\* The names TRACER_PY defines in the guest namespace.
PreludeNames ==
    {"defaultdict", "tree", "trace", "_build_children", "dfs",
     "print_ascii_tree", "print_indented"}
\* The kinds of user code: "" is blank; "bare" is DEFAULT_CODE, which
\* decorates with @trace and no table, so nothing it defines records calls;
\* "traced" decorates fib, f and g with @trace(tree); "traced+reset" also
\* defines a function reset_trace.
Codes == {"", "bare", "traced", "traced+reset"}
\* The kinds of call expression: "" is blank, "fib(5)" is DEFAULT_CALL.
CallExpressions == {"", "fib(5)", "fib(3)", "any"}
\* The names the user code defines in the guest namespace.
UserNames(c) ==
    CASE c = "bare" -> {"fib"}
      [] c = "traced" -> {"fib", "f", "g"}
      [] c = "traced+reset" -> {"fib", "f", "g", "reset_trace"}
      [] OTHER -> {}

\* The harness is not part of a bare trace session.
HarnessInSession ==
    /\ code = "traced" /\ callExpression = expr
    /\ error = "" /\ result = Null /\ stdout = "" /\ treeOutput = ""
    /\ graphData = Null
    /\ isRunning = FALSE /\ pyodideReady = TRUE
    /\ pyGlobals = PreludeNames \cup UserNames("traced")
    /\ runPc = "session"
    /\ stdoutCapture = "" /\ user_stdout = "" /\ excMsg = ""
    /\ call_tree_output = "" /\ call_tree_json = EmptyWire

\* No trace session is under way.
SessionIdle ==
    /\ tree = <<>>
    /\ next_id = [f \in Fns |-> 0]
    /\ stack = [f \in Fns |-> <<>>]
    /\ frames = <<>>
    /\ exc = FALSE
    /\ phase = "idle"
    /\ expr = "untraced"
    /\ calls = <<>>

\* loadPyodide: setPyodideReady(true)
LoadPyodide ==
    /\ ~pyodideReady
    /\ pyodideReady' = TRUE
    /\ UNCHANGED <<code, callExpression, error, result, stdout, treeOutput,
                   graphData, isRunning, pyGlobals, runPc>>
    /\ UNCHANGED <<rvars, lvars, gvars>>

\* handleCodeChange
HandleCodeChange(c) ==
    /\ ~isRunning
    /\ c # code
    /\ code' = c
    /\ UNCHANGED <<callExpression, error, result, stdout, treeOutput, graphData,
                   isRunning, pyodideReady, pyGlobals, runPc>>
    /\ UNCHANGED <<rvars, lvars, gvars>>

\* handleCallChange
HandleCallChange(e) ==
    /\ ~isRunning
    /\ e # callExpression
    /\ callExpression' = e
    /\ UNCHANGED <<code, error, result, stdout, treeOutput, graphData,
                   isRunning, pyodideReady, pyGlobals, runPc>>
    /\ UNCHANGED <<rvars, lvars, gvars>>

\* The message of the first check of handleRunClick that rejects the run.
Rejection ==
    IF ~pyodideReady THEN "Pyodide is still loading. Please wait."
    ELSE IF code = "" THEN "Please provide some Python code to run."
    ELSE IF callExpression = "" THEN "Please provide a call expression to evaluate."
    ELSE ""

\* handleRunClick, lines 366-386: the outputs are cleared and the run is
\* rejected
RunRejected ==
    /\ ~isRunning
    /\ Rejection # ""
    /\ error' = Rejection
    /\ result' = Null /\ stdout' = "" /\ treeOutput' = "" /\ graphData' = Null
    /\ UNCHANGED <<code, callExpression, isRunning, pyodideReady, pyGlobals, runPc>>
    /\ UNCHANGED <<rvars, lvars, gvars>>

\* handleRunClick, lines 366-433: the outputs are cleared, the script is
\* built and handed to runPythonAsync
RunStart ==
    /\ ~isRunning
    /\ Rejection = ""
    /\ error' = ""
    /\ result' = Null /\ stdout' = "" /\ treeOutput' = "" /\ graphData' = Null
    /\ isRunning' = TRUE
    /\ runPc' = "prelude"
    /\ UNCHANGED <<code, callExpression, pyodideReady, pyGlobals>>
    /\ UNCHANGED <<rvars, lvars, gvars>>

\* script: TRACER_PY  (tree = {}, and the definitions of the prelude)
ExecPrelude ==
    /\ runPc = "prelude"
    /\ pyGlobals' = pyGlobals \cup PreludeNames
    /\ tree' = <<>>
    /\ runPc' = "code"
    /\ UNCHANGED <<code, callExpression, error, result, stdout, treeOutput,
                   graphData, isRunning, pyodideReady>>
    /\ UNCHANGED <<next_id, stack, frames, exc, phase, expr, calls, lvars, gvars>>

\* script: the user code  (each deco(fn): next_id = 0, stack = [])
ExecUserCode ==
    /\ runPc = "code"
    /\ pyGlobals' = pyGlobals \cup UserNames(code)
    /\ next_id' = [f \in Fns |-> 0]
    /\ stack' = [f \in Fns |-> <<>>]
    /\ runPc' = "reset"
    /\ UNCHANGED <<code, callExpression, error, result, stdout, treeOutput,
                   graphData, isRunning, pyodideReady>>
    /\ UNCHANGED <<tree, frames, exc, phase, expr, calls, lvars, gvars>>

\* --------------------------------------------------------- Wire form
\* A JSON value as JavaScript sees it after JSON.parse: its type, and its
\* number or its characters.  "infinity" is a number too large for a double
\* (1e999); "undefined" is what reading a missing field gives.
JNum(n) == [t |-> "number", n |-> n, s |-> ""]
JStr(str) == [t |-> "string", n |-> 0, s |-> str]
JNull == [t |-> "null", n |-> 0, s |-> ""]
JInf == [t |-> "infinity", n |-> 0, s |-> ""]
JUndefined == [t |-> "undefined", n |-> 0, s |-> ""]
\* an array of strings, or a missing field
JArr(items) == [t |-> "array", items |-> items]
JNoArr == [t |-> "undefined", items |-> <<>>]
\* An item of the array: an object with its fields, or another value.
JObj(id, parent, functionName, args, res) ==
    [t |-> "object", n |-> 0, s |-> "", id |-> id, parent |-> parent,
     functionName |-> functionName, args |-> args, result |-> res]
JOther(v) ==
    [t |-> v.t, n |-> v.n, s |-> v.s, id |-> JUndefined, parent |-> JUndefined,
     functionName |-> JUndefined, args |-> JNoArr, result |-> JUndefined]

\* Number(value): a finite number, or NaN / Infinity
NaN == [finite |-> FALSE, n |-> 0]
Finite(n) == [finite |-> TRUE, n |-> n]
DigitStrings == <<"0", "1", "2">>
Number(v) ==
    CASE v.t = "number" -> Finite(v.n)
      [] v.t = "infinity" -> NaN
      [] v.t = "null" -> Finite(0)
      [] v.t = "undefined" -> NaN
      [] v.t = "string" ->
            IF v.s = "" THEN Finite(0)
            ELSE IF \E d \in DOMAIN DigitStrings : DigitStrings[d] = v.s
                 THEN Finite((CHOOSE d \in DOMAIN DigitStrings : DigitStrings[d] = v.s) - 1)
                 ELSE NaN
\* String(value)
String(v) ==
    CASE v.t = "string" -> v.s
      [] v.t = "number" -> DigitStrings[v.n + 1]
      [] v.t = "infinity" -> "Infinity"
      [] v.t = "null" -> "null"
      [] v.t = "undefined" -> "undefined"

\* the callback of raw.flatMap: [] for a dropped item, [node] otherwise
ParseItem(item) ==
    IF item.t # "object" THEN <<>>
    ELSE LET id == Number(item.id)
             parent == IF item.parent.t \in {"null", "undefined"}
                       THEN Finite(None) ELSE Number(item.parent)
         IN IF ~id.finite THEN <<>>
            ELSE IF ~parent.finite THEN <<>>
            ELSE <<[id |-> id.n, parent |-> parent.n,
                    functionName |-> IF item.functionName.t = "string"
                                     THEN item.functionName.s ELSE "fn",
                    args |-> IF item.args.t = "array" THEN item.args.items ELSE <<>>,
                    result |-> IF item.result.t # "undefined"
                               THEN String(item.result) ELSE ""]>>

RECURSIVE ParseItemsUntilBad(_, _)
RECURSIVE ParseItems(_, _)
ParseItemsUntilBad(items, i) ==
    IF i > Len(items) \/ ParseItem(items[i]) = <<>> THEN <<>>
    ELSE ParseItem(items[i]) \o ParseItemsUntilBad(items, i + 1)
\* raw.flatMap(...)
ParseItems(items, i) ==
    IF i > Len(items) THEN <<>>
    ELSE ParseItem(items[i]) \o ParseItems(items, i + 1)

\* JSON.parse(treeJsonStr) in try/catch, Array.isArray(raw): the parsed graph
ParseWire(wire) ==
    IF wire.kind = "array" THEN ParseItems(wire.items, 1) ELSE <<>>
\* setGraphData(parsedGraph.length > 0 ? parsedGraph : null)
GraphDataOf(parsedGraph) == IF Len(parsedGraph) > 0 THEN parsedGraph ELSE Null

\* script, lines 410-413 and 426-427: call_tree_output
CallTreeOutputBlank(t) ==
    IF t # <<>>
    THEN IF PrintAsciiTree(t) # <<>> THEN PrintAsciiTree(t) ELSE "No traced calls"
    ELSE ""
CallTreeOutput(t) ==
    IF t # <<>>
    THEN IF PrintAsciiTree(t) # <<>> THEN PrintAsciiTree(t) ELSE "No traced calls"
    ELSE "No traced calls"

\* setError(`Python error: ${message}`)
ErrorText(message) == "Python error: " \o message

\* except Exception: user_stdout = _stdout_capture.getvalue(); raise
StdoutOnFailureDropped(captured) == ""
StdoutOnFailure(captured) == captured

RECURSIVE TrimEnd(_)
\* String.prototype.trimEnd, on texts whose only white space is the newline
TrimEnd(text) ==
    IF text # "" /\ SubSeq(text, Len(text), Len(text)) = "\n"
    THEN TrimEnd(SubSeq(text, 1, Len(text) - 1))
    ELSE text

\* print(...) in the evaluated code, under redirect_stdout(_stdout_capture)
PrintedLine == "out\n"
PrintOut ==
    /\ runPc = "eval" /\ phase = "running" /\ ~exc
    /\ Len(stdoutCapture) < MaxPrints * Len(PrintedLine)
    /\ stdoutCapture' = stdoutCapture \o PrintedLine
    /\ UNCHANGED <<user_stdout, excMsg, jvars>>
    /\ UNCHANGED <<rvars, lvars, hvars>>

RunFailsNoFinally(message) ==
    /\ error' = message
    /\ runPc' = "idle"
    /\ phase' = "idle" /\ expr' = "untraced" /\ calls' = <<>>
    /\ UNCHANGED <<code, callExpression, result, stdout, treeOutput, graphData,
                   isRunning, pyodideReady, pyGlobals>>
    /\ UNCHANGED <<tree, next_id, stack, frames, exc, lvars>>
\* catch (err) { setError(`Python error: ${message}`) } finally { setIsRunning(false) }
\* The guest keeps its state; the history of the session ends with the run.
RunFails(message) ==
    /\ error' = message
    /\ isRunning' = FALSE
    /\ runPc' = "idle"
    /\ phase' = "idle" /\ expr' = "untraced" /\ calls' = <<>>
    /\ UNCHANGED <<code, callExpression, result, stdout, treeOutput, graphData,
                   pyodideReady, pyGlobals>>
    /\ UNCHANGED <<tree, next_id, stack, frames, exc, lvars>>

\* script: reset_trace()  -- the name is looked up in the guest namespace;
\* a reset_trace of the user code runs on state the prelude has just reset.
\* Then lines 397-401: _stdout_capture = StringIO(), user_stdout = ""
CallReset ==
    /\ runPc = "reset"
    /\ IF "reset_trace" \in pyGlobals
       THEN /\ runPc' = "eval"
            /\ phase' = "running"
            /\ expr' = IF code = "bare" THEN "untraced" ELSE callExpression
            /\ calls' = <<>>
            /\ stdoutCapture' = "" /\ user_stdout' = "" /\ excMsg' = ""
            /\ call_tree_output' = "" /\ call_tree_json' = EmptyWire
            /\ UNCHANGED <<code, callExpression, error, result, stdout, treeOutput,
                           graphData, isRunning, pyodideReady, pyGlobals>>
            /\ UNCHANGED <<tree, next_id, stack, frames, exc, lvars>>
       ELSE /\ RunFails(ErrorText("NameError: name 'reset_trace' is not defined"))
            /\ UNCHANGED gvars

\* script, lines 405-407, and the catch of handleRunClick: the call
\* expression raised
EvalFails ==
    /\ runPc = "eval" /\ phase = "raised"
    /\ user_stdout' = StdoutOnFailure(stdoutCapture)
    /\ RunFails(ErrorText(excMsg))
    /\ UNCHANGED <<stdoutCapture, excMsg, jvars>>

\* script, lines 410-425: the table is not empty; print_ascii_tree prints
\* it, then the export loop unpacks each 4-tuple of the table into 5 names
ExportFails ==
    /\ runPc = "eval" /\ phase = "returned"
    /\ tree # <<>>
    /\ user_stdout' = stdoutCapture
    /\ call_tree_output' = CallTreeOutput(tree)
    /\ RunFails(ErrorText("ValueError: not enough values to unpack (expected 5, got 4)"))
    /\ UNCHANGED <<stdoutCapture, excMsg, call_tree_json>>

\* script, lines 409 and 426-427: the table is empty; the script ends and
\* runPythonAsync resolves
RunSucceedsUntraced ==
    /\ runPc = "eval" /\ phase = "returned"
    /\ tree = <<>>
    /\ user_stdout' = stdoutCapture
    /\ call_tree_output' = CallTreeOutput(tree)
    /\ runPc' = "readback"
    /\ phase' = "idle" /\ expr' = "untraced" /\ calls' = <<>>
    /\ UNCHANGED <<stdoutCapture, excMsg, call_tree_json>>
    /\ UNCHANGED <<code, callExpression, error, result, stdout, treeOutput,
                   graphData, isRunning, pyodideReady, pyGlobals>>
    /\ UNCHANGED <<tree, next_id, stack, frames, exc, lvars>>

\* handleRunClick, lines 434-501: the guest variables are read back, the
\* wire form is parsed and the outputs are set
ReadBack ==
    /\ runPc = "readback"
    /\ result' = "result"
    /\ stdout' = TrimEnd(user_stdout)
    /\ treeOutput' = IF call_tree_output # "" THEN TrimEnd(call_tree_output) ELSE ""
    /\ graphData' = GraphDataOf(ParseWire(call_tree_json))
    /\ isRunning' = FALSE
    /\ runPc' = "idle"
    /\ UNCHANGED <<code, callExpression, error, pyodideReady, pyGlobals>>
    /\ UNCHANGED <<rvars, lvars, gvars>>

\* tree = {}; each deco(fn): next_id = 0, stack = []
Init ==
    /\ tree = <<>>
    /\ next_id = [f \in Fns |-> 0]
    /\ stack = [f \in Fns |-> <<>>]
    /\ frames = <<>>
    /\ exc = FALSE
    /\ phase = "running"
    /\ expr \in {"fib(3)", "any"}
    /\ calls = <<>>
    /\ LayoutIdle
    /\ HarnessInSession

Next ==
    \/ \E f \in Fns, a \in 0..5 : Call(f, a)
    \/ Return
    \/ Raise
    \/ Catch
    \/ Finish
    \/ Escape

Spec == Init /\ [][Next]_vars

\* computeTreeLayout on every bounded node list
InitLayout ==
    /\ SessionIdle
    /\ HarnessInSession
    /\ nodes \in NodeLists
    /\ layout = [status |-> "pending", nodes |-> <<>>, edges |-> <<>>]
    /\ layoutRuns = 0
NextLayout == Layout
SpecLayout == InitLayout /\ [][NextLayout]_vars

\* The page after mounting: DEFAULT_CODE, DEFAULT_CALL, Pyodide loading.
InitRun ==
    /\ SessionIdle
    /\ LayoutIdle
    /\ code = "bare" /\ callExpression = "fib(5)"
    /\ error = "" /\ result = Null /\ stdout = "" /\ treeOutput = ""
    /\ graphData = Null
    /\ isRunning = FALSE /\ pyodideReady = FALSE
    /\ pyGlobals = {}
    /\ runPc = "idle"
    /\ stdoutCapture = "" /\ user_stdout = "" /\ excMsg = ""
    /\ call_tree_output = "" /\ call_tree_json = EmptyWire
NextRun ==
    \/ LoadPyodide
    \/ \E c \in Codes : HandleCodeChange(c)
    \/ \E e \in CallExpressions : HandleCallChange(e)
    \/ RunRejected
    \/ RunStart
    \/ ExecPrelude
    \/ ExecUserCode
    \/ CallReset
    \/ \E f \in Fns, a \in 0..5 : Call(f, a)
    \/ Return
    \/ Raise
    \/ Catch
    \/ Finish
    \/ Escape
    \/ PrintOut
    \/ EvalFails
    \/ ExportFails
    \/ RunSucceedsUntraced
    \/ ReadBack
SpecRun == InitRun /\ [][NextRun]_vars

\* The items of the bounded wire arrays: objects with every kind of id and
\* parent and all the other fields, objects with fields missing or of
\* another type, and values that are not objects.
FullObj(id, parent) == JObj(id, parent, JStr("fib"), JArr(<<"1">>), JStr("1"))
IdValues == {JNum(0), JNum(1), JNum(2), JStr("1"), JStr("x"), JNull, JInf, JUndefined}
ParentValues == {JNull, JUndefined, JNum(0), JStr("x")}
WireItems ==
    {FullObj(id, parent) : id \in IdValues, parent \in ParentValues}
    \cup {JObj(JNum(0), JNull, JUndefined, JNoArr, JUndefined),
          JObj(JNum(1), JNum(0), JNum(1), JNoArr, JNull)}
    \cup {JOther(JNum(1)), JOther(JStr("x")), JOther(JNull)}
\* The values call_tree_json may denote: an array of items, another JSON
\* value, or no JSON at all.
Wires ==
    {[kind |-> "array", items |-> w] :
        w \in UNION {[1..n -> WireItems] : n \in 0..MaxWire}}
    \cup {[kind |-> "other", items |-> <<>>], [kind |-> "invalid", items |-> <<>>]}

\* The read-back on every bounded wire form: the script has ended.
InitParse ==
    /\ SessionIdle
    /\ LayoutIdle
    /\ code = "traced+reset" /\ callExpression = "any"
    /\ error = "" /\ result = Null /\ stdout = "" /\ treeOutput = ""
    /\ graphData = Null
    /\ isRunning = TRUE /\ pyodideReady = TRUE
    /\ pyGlobals = PreludeNames \cup UserNames("traced+reset")
    /\ runPc = "readback"
    /\ stdoutCapture = "" /\ user_stdout = "" /\ excMsg = ""
    /\ call_tree_output = "No traced calls"
    /\ call_tree_json \in Wires
NextParse == ReadBack
SpecParse == InitParse /\ [][NextParse]_vars

\* The bounded well-formed tables: n nodes with ids 0..n-1, each with no
\* parent or with a parent of lower id (a call begins after its caller), in
\* every insertion order.
InsertionOrders(n) ==
    {p \in [1..n -> 0..(n - 1)] : \A i, j \in 1..n : i # j => p[i] # p[j]}
ParentChoices(n) ==
    {pf \in [0..(n - 1) -> {None} \cup (0..(n - 1))] :
        \A k \in 0..(n - 1) : pf[k] = None \/ pf[k] < k}
ForestTables ==
    UNION {{[i \in 1..n |-> [id |-> p[i], parent |-> pf[p[i]],
                              args |-> 0, result |-> 0, fn |-> "f"]] :
               p \in InsertionOrders(n), pf \in ParentChoices(n)} : n \in 1..MaxTable}

\* script, lines 411-413: print_ascii_tree(tree) under
\* redirect_stdout(_tree_capture); call_tree_output = _tree_capture.getvalue()
PrintTree ==
    /\ runPc = "render"
    /\ tree # <<>>
    /\ call_tree_output' = CallTreeOutput(tree)
    /\ runPc' = "export"
    /\ UNCHANGED <<stdoutCapture, user_stdout, excMsg, call_tree_json>>
    /\ UNCHANGED <<code, callExpression, error, result, stdout, treeOutput,
                   graphData, isRunning, pyodideReady, pyGlobals>>
    /\ UNCHANGED <<rvars, lvars>>

\* print_ascii_tree on every bounded well-formed table: the evaluation has
\* returned and the script is about to render the table.
InitRender ==
    /\ tree \in ForestTables
    /\ next_id = [f \in Fns |-> IF f = "f" THEN Len(tree) ELSE 0]
    /\ stack = [f \in Fns |-> <<>>]
    /\ frames = <<>> /\ exc = FALSE
    /\ phase = "idle" /\ expr = "untraced" /\ calls = <<>>
    /\ LayoutIdle
    /\ code = "traced+reset" /\ callExpression = "any"
    /\ error = "" /\ result = Null /\ stdout = "" /\ treeOutput = ""
    /\ graphData = Null
    /\ isRunning = TRUE /\ pyodideReady = TRUE
    /\ pyGlobals = PreludeNames \cup UserNames("traced+reset")
    /\ runPc = "render"
    /\ stdoutCapture = "" /\ user_stdout = "" /\ excMsg = ""
    /\ call_tree_output = "" /\ call_tree_json = EmptyWire
NextRender == PrintTree
SpecRender == InitRender /\ [][NextRender]_vars

\* ================================================================ claims
\* history helpers
OneFunction == \A u, v \in DOMAIN calls : calls[u].fn = calls[v].fn
\* the id of the innermost wrapped call active when call c began
TrueParentId(c) == IF c.caller = None THEN None ELSE calls[c.caller].id
Dangling(t) == {t[i].id : i \in {j \in 1..Len(t) :
                    t[j].parent # None /\ t[j].parent \notin KeySet(t)}}
Range(s) == {s[i] : i \in 1..Len(s)}

\* C1: with one wrapped function, once the call expression has returned
\* every recorded node belongs to a returned call and its parent is the id
\* of the innermost wrapped call active when that call began, None exactly
\* for calls begun with no wrapped call active; fib(3) records exactly 5
\* nodes, one root, the root with two children, its first child with two.
C1_ParentsMatchNesting ==
    (phase = "returned" /\ OneFunction) =>
        /\ \A i \in 1..Len(tree) :
              \E u \in DOMAIN calls :
                 /\ calls[u].id = tree[i].id
                 /\ calls[u].outcome = "returned"
                 /\ tree[i].parent = TrueParentId(calls[u])
                 /\ (tree[i].parent = None) <=> (calls[u].caller = None)
        /\ expr = "fib(3)" =>
              LET built == BuildChildren(tree) IN
              /\ Len(tree) = 5
              /\ Len(built.roots) = 1
              /\ Len(ChildrenGet(built.children, built.roots[1])) = 2
              /\ Len(ChildrenGet(built.children,
                       ChildrenGet(built.children, built.roots[1])[1])) = 2
C1_Witness ==
    /\ phase = "returned" /\ expr = "fib(3)"
    /\ Len(tree) = 5
    /\ \E i \in 1..Len(tree) : tree[i].parent # None /\ tree[i].parent # 0

\* A call begun while no traced call is active is given parent None.
ParentNoneWhenIdle ==
    \A u \in DOMAIN calls : calls[u].caller = None => calls[u].parent = None
\* A step on which an exception leaves a wrapper restores every call stack
\* to the content it had before that call began.
StackRestoredOnRaise ==
    (exc' /\ Len(frames') < Len(frames)) => stack' = Last(frames).pre
\* C2: when a traced call raises, at any depth, then once the exception has
\* left the wrapper every call stack has exactly the content it had before
\* that call began, and a call begun while no traced call is active is given
\* parent None.
C2_StackDiscipline ==
    [](ParentNoneWhenIdle) /\ [][StackRestoredOnRaise]_vars
C2_Witness ==
    \E u, v \in DOMAIN calls :
       /\ u < v
       /\ calls[u].outcome = "raised" /\ calls[u].caller # None
       /\ calls[v].caller = None /\ calls[v].parent = None

\* C3: one id counter is shared by all wrapped functions: the ids are
\* handed out 0, 1, 2, ... in call-start order, so no two invocations
\* receive the same id.
C3_IdsInCallOrder ==
    \A u \in DOMAIN calls : calls[u].id = u - 1

\* C4: a call begun while an invocation of another wrapped function is the
\* innermost active traced call is recorded with that invocation's id as
\* its parent.
C4_MutualRecursionParent ==
    \A u \in DOMAIN calls :
       (calls[u].caller # None /\ calls[calls[u].caller].fn # calls[u].fn)
          => calls[u].parent = calls[calls[u].caller].id

\* A step on which a call raises leaves the table as it was and pops the
\* entry of that call, its own id, from the stack of its closure.
RaiseStep ==
    (Len(frames') < Len(frames) /\ exc') =>
        /\ tree' = tree
        /\ stack'[Last(frames).fn] = Pop(stack[Last(frames).fn])
        /\ Last(stack[Last(frames).fn]) = Last(frames).my_id
\* C5: a traced call whose body raises leaves the trace table exactly as it
\* was (no node added for its id, none changed) and its call-stack entry is
\* popped before the exception reaches the caller.
C5_RaiseRecordsNothing == [][RaiseStep]_vars
C5_Witness ==
    /\ tree # <<>>
    /\ \E u \in DOMAIN calls :
          calls[u].outcome = "raised" /\ calls[u].id \notin KeySet(tree)

\* C6 (as claimed): once the call expression has returned, every node with
\* a non-null parent has that parent id among the keys of the table.
C6_ParentsAlwaysRecorded ==
    phase = "returned" => Dangling(tree) = {}
\* C6 (amended): once the call expression has returned, every node with a
\* non-null parent has that parent id among the keys of the table, unless
\* the parent invocation raised.
C6_ParentsRecordedUnlessRaised ==
    phase = "returned" =>
        \A i \in 1..Len(tree) :
           (tree[i].parent # None /\ tree[i].parent \notin KeySet(tree)) =>
              \E u \in DOMAIN calls :
                 /\ calls[u].fn = tree[i].fn
                 /\ calls[u].id = tree[i].parent
                 /\ calls[u].outcome = "raised"
C6_Witness ==
    /\ phase = "returned"
    /\ Dangling(tree) # {}
    /\ \E i \in 1..Len(tree) : tree[i].parent # None /\ tree[i].parent \in KeySet(tree)

\* C7: the reset entry point the script calls before the call expression is
\* defined in the guest namespace.
C7_ResetDefined ==
    runPc = "reset" => "reset_trace" \in pyGlobals

\* C8: _build_children returns as roots every node whose parent is None
\* and every node whose parent id is not a key of the table.
C8_DanglingParentsAreRoots ==
    phase = "returned" =>
        Range(BuildChildren(tree).roots) =
            {tree[i].id : i \in {j \in 1..Len(tree) :
                tree[j].parent = None \/ tree[j].parent \notin KeySet(tree)}}

\* C9: for a table with one node whose parent id is absent, print_ascii_tree
\* prints a line for every node exactly once, the dangling node as a root.
C9_DanglingNodePrinted ==
    (phase = "returned" /\ Cardinality(Dangling(tree)) = 1) =>
        LET out == PrintAsciiTree(tree) IN
        /\ \A k \in KeySet(tree) :
              Cardinality({i \in 1..Len(out) : out[i].nid = k}) = 1
        /\ \A k \in Dangling(tree) :
              \E i \in 1..Len(out) :
                 out[i].nid = k /\ out[i].connector = "" /\ out[i].prefix = <<>>

\* C10: computeTreeLayout completes on every node list with distinct ids,
\* cyclic parent links included, and gives every node a depth.
C10_LayoutCompletes ==
    layout.status # "pending" =>
        /\ layout.status = "ok"
        /\ {layout.nodes[i].id : i \in 1..Len(layout.nodes)} = KeySet(nodes)

\* The parent field of the node with this id; None when there is no such node.
ParentId(ns, id) == IF id \in KeySet(ns) THEN Get(ns, id).parent ELSE None
RECURSIVE Up(_, _, _)
\* The id reached from id by following k parent links.
Up(ns, id, k) == IF k = 0 THEN id ELSE Up(ns, ParentId(ns, id), k - 1)
\* No node is its own ancestor: every chain of parent links leaves the table.
Acyclic(ns) == \A i \in 1..Len(ns) : Up(ns, ns[i].id, Len(ns) + 1) = None
\* The positioned node with this id.
Positioned(id) == Get(layout.nodes, id)

\* C11: for an acyclic node list with distinct ids, in any order,
\* computeTreeLayout returns exactly one positioned node per input node;
\* a node whose parent is null or absent from the list has depth 0, every
\* other node has the depth of its parent plus 1.
C11_DepthsOfAcyclicTable ==
    (layout.status # "pending" /\ Acyclic(nodes)) =>
        /\ layout.status = "ok"
        /\ Len(layout.nodes) = Len(nodes)
        /\ \A i \in 1..Len(nodes) :
              /\ Cardinality({j \in 1..Len(layout.nodes) :
                                 layout.nodes[j].id = nodes[i].id}) = 1
              /\ Positioned(nodes[i].id).parent = nodes[i].parent
              /\ Positioned(nodes[i].id).depth =
                    IF nodes[i].parent = None \/ nodes[i].parent \notin KeySet(nodes)
                    THEN 0
                    ELSE Positioned(nodes[i].parent).depth + 1
\* A child listed before its parent, the parent naming an absent id.
C11_Witness ==
    /\ layout.status = "ok" /\ Acyclic(nodes)
    /\ \E i, j \in 1..Len(nodes) :
          /\ i < j
          /\ nodes[i].parent = nodes[j].id
          /\ nodes[j].parent # None /\ nodes[j].parent \notin KeySet(nodes)
          /\ Positioned(nodes[i].id).depth = 1

\* The table as the node list handed to the layout: id and parent of each
\* item, in insertion order.
TableNodes(t) == [i \in 1..Len(t) |-> [id |-> t[i].id, parent |-> t[i].parent]]
\* Every call so far was made by the call expression itself and has returned.
AllTopLevelReturned ==
    /\ phase = "returned" /\ calls # <<>>
    /\ \A u \in DOMAIN calls : calls[u].caller = None /\ calls[u].outcome = "returned"

\* C12: after k top-level traced calls made one after another with no
\* nesting, of the same or of different wrapped functions, the table has k
\* nodes, the Indexer finds k roots, and the layout places all k nodes at
\* depth 0 with the same y and pairwise different x.
C12_TopLevelCallsAreRoots ==
    AllTopLevelReturned =>
        LET k == Len(calls)
            lay == computeTreeLayout(TableNodes(tree))
        IN /\ Len(tree) = k
           /\ Len(BuildChildren(tree).roots) = k
           /\ lay.status = "ok" /\ Len(lay.nodes) = k
           /\ \A i, j \in 1..Len(lay.nodes) :
                 /\ lay.nodes[i].depth = 0
                 /\ lay.nodes[i].y = lay.nodes[j].y
                 /\ i # j => lay.nodes[i].x2 # lay.nodes[j].x2

Carries(text, m) ==
    \E i \in 0..(Len(text) - Len(m)) : SubSeq(text, i + 1, i + Len(m)) = m
\* The step on which a run ends because the call expression raised.
RaisedRunEnds == runPc = "eval" /\ phase = "raised" /\ runPc' = "idle"

\* C14: when the call expression raises, the run ends in the failure state,
\* the error text carries the message of the exception, and the text
\* written to standard output before the failure is held by the guest
\* variable user_stdout.
C14_FailureKeepsStdout ==
    [][RaisedRunEnds =>
          /\ ~isRunning' /\ result' = Null /\ graphData' = Null
          /\ excMsg # "" /\ Carries(error', excMsg)
          /\ user_stdout' = stdoutCapture]_vars
\* A failed run whose code printed before the call expression raised.
C14_Witness ==
    /\ runPc = "idle" /\ ~isRunning
    /\ Carries(error, MessageOf("g"))
    /\ user_stdout = PrintedLine

\* C15: a successful evaluation during which no traced call was recorded
\* (empty table) yields the text output "No traced calls" and no graph
\* data, and is not a failure.
C15_EmptyTableOutput ==
    (runPc = "idle" /\ result # Null /\ tree = <<>>) =>
        /\ treeOutput = "No traced calls"
        /\ graphData = Null
        /\ error = "" /\ ~isRunning
\* A run has succeeded with an empty table.
C15_Witness ==
    /\ runPc = "idle" /\ result # Null /\ tree = <<>>
    /\ code = "traced+reset" /\ treeOutput = "No traced calls"

\* The node list has the ids of the table and, for every id, its parent.
SameIdsAndParents(graph, t) ==
    {<<graph[i].id, graph[i].parent>> : i \in 1..Len(graph)}
        = {<<t[i].id, t[i].parent>> : i \in 1..Len(t)}
\* The step on which the script leaves the evaluation that has returned.
ReturnedRunExports == runPc = "eval" /\ phase = "returned" /\ runPc' # "eval"

\* C16: exporting the recorded table to the wire form and parsing it back
\* yields a node list with the same set of ids and, for every id, the same
\* parent as in the recorded table.
C16_ExportRoundTrip ==
    [][ReturnedRunExports =>
          SameIdsAndParents(ParseWire(call_tree_json'), tree)]_vars

\* The record is dropped: it is not an object, its id is not finite, or its
\* parent is neither null nor finite.
Dropped(item) ==
    \/ item.t # "object"
    \/ ~Number(item.id).finite
    \/ item.parent.t \notin {"null", "undefined"} /\ ~Number(item.parent).finite
\* The positions of the records of the array that are kept, and the place
\* of the i-th record among them.
KeptIndices(items) == {i \in 1..Len(items) : ~Dropped(items[i])}
KeptRank(items, i) == Cardinality({j \in KeptIndices(items) : j <= i})
\* The node carries the fields of the record, defaults where they are missing.
NodeOfRecord(node, item) ==
    /\ node.id = Number(item.id).n
    /\ node.parent = IF item.parent.t \in {"null", "undefined"}
                     THEN None ELSE Number(item.parent).n
    /\ item.functionName.t = "string" => node.functionName = item.functionName.s
    /\ item.functionName.t = "undefined" => node.functionName = "fn"
    /\ item.args.t = "array" => node.args = item.args.items
    /\ item.args.t = "undefined" => node.args = <<>>
    /\ item.result.t = "string" => node.result = item.result.s
    /\ item.result.t = "undefined" => node.result = ""

\* C17: parsing the wire form drops a record that is not an object, has a
\* non-finite id or has a non-null non-finite parent, and returns every
\* other record of the array, in the original relative order, with missing
\* fields replaced by defaults.
C17_MalformedRecordsDropped ==
    (runPc = "idle" /\ call_tree_json.kind = "array") =>
        LET items == call_tree_json.items
            kept == KeptIndices(items)
            graph == IF graphData = Null THEN <<>> ELSE graphData
        IN /\ Len(graph) = Cardinality(kept)
           /\ \A i \in kept : NodeOfRecord(graph[KeptRank(items, i)], items[i])
\* A malformed record before a well-formed one with a missing field.
C17_Witness ==
    /\ runPc = "idle" /\ call_tree_json.kind = "array"
    /\ Len(call_tree_json.items) = 2
    /\ call_tree_json.items[1].id = JStr("x")
    /\ call_tree_json.items[2].functionName = JUndefined
    /\ graphData # Null /\ Len(graphData) = 1
    /\ graphData[1].functionName = "fn"

\* A step that inserts a node: the innermost call stores its node while
\* its id is still the top of its stack, and the node of its recorded
\* parent is not in the table yet.
InsertionStep ==
    tree' # tree =>
        LET top == Last(frames)
        IN /\ tree' = DictSet(tree, top.my_id, Get(tree', top.my_id))
           /\ stack[top.fn] # <<>> /\ Last(stack[top.fn]) = top.my_id
           /\ top.parent # None => top.parent \notin KeySet(tree)

\* C18: during one execution the node of a call is inserted only after the
\* nodes of all its recorded children: the insertion of a child precedes
\* the insertion of its recorded parent, and at the moment of an insertion
\* the inserted id is still on the call stack.
C18_ChildrenInsertedFirst == [][InsertionStep]_vars

\* The positioned nodes, and those of the depth level of node n.
LaidOut == Range(layout.nodes)
LevelOf(n) == {m \in LaidOut : m.depth = n.depth}
RECURSIVE SumX2(_)
\* The sum of the doubled x coordinates of a set of nodes with distinct ids.
SumX2(S) ==
    IF S = {} THEN 0
    ELSE LET n == CHOOSE m \in S : TRUE IN n.x2 + SumX2(S \ {n})

\* C19: within a depth level of n nodes the node with the i-th smallest id
\* (from 0) has x = i*9 - (n-1)*9/2 and y = -7*depth; the x values of a
\* level sum to 0, a lower id lies at a smaller x than a higher id of the
\* same level, and no two distinct nodes share the same (x, y).  x2 is 2x.
C19_LevelCoordinates ==
    layout.status = "ok" =>
        /\ \A n \in LaidOut :
              LET i == Cardinality({m \in LevelOf(n) : m.id < n.id})
              IN /\ n.x2 = 2 * i * 9 - (Cardinality(LevelOf(n)) - 1) * 9
                 /\ n.y = 0 - 7 * n.depth
                 /\ SumX2(LevelOf(n)) = 0
        /\ \A n, m \in LaidOut :
              /\ (n.depth = m.depth /\ n.id < m.id) => n.x2 < m.x2
              /\ n.id # m.id => <<n.x2, n.y>> # <<m.x2, m.y>>
\* A level of two nodes below a root, listed out of id order.
C19_Witness ==
    /\ layout.status = "ok" /\ Len(layout.nodes) >= 3
    /\ \E n, m \in LaidOut : n.id # m.id /\ n.depth = 1 /\ m.depth = 1
    /\ \E i, j \in 1..Len(nodes) : i < j /\ nodes[i].id > nodes[j].id

\* C20: the edge list has exactly one edge (from = parent, to = node) for
\* each node whose parent is non-null and is the id of a laid-out node, no
\* edge for a node whose parent is null or absent, and every endpoint of an
\* edge is the id of a laid-out node.
C20_EdgesOfPresentParents ==
    layout.status = "ok" =>
        LET ids == {n.id : n \in LaidOut} IN
        /\ \A n \in LaidOut :
              Cardinality({e \in DOMAIN layout.edges : layout.edges[e].to = n.id})
                 = IF n.parent # None /\ n.parent \in ids THEN 1 ELSE 0
        /\ \A e \in DOMAIN layout.edges :
              /\ layout.edges[e].from \in ids /\ layout.edges[e].to \in ids
              /\ layout.edges[e].from = Get(layout.nodes, layout.edges[e].to).parent
\* A node with a present parent beside a node with an absent parent.
C20_Witness ==
    /\ layout.status = "ok" /\ Len(layout.edges) = 1
    /\ \E n \in LaidOut : n.parent # None /\ n.parent \notin {m.id : m \in LaidOut}

\* The table read as a forest: the recorded parent of a node, its position
\* in insertion order, whether it is the last child of its parent, and
\* whether node a is node n or one of its ancestors.
TParent(id) == Get(tree, id).parent
TPos(id) == CHOOSE i \in 1..Len(tree) : tree[i].id = id
IsLastChild(id) == \A j \in 1..Len(tree) : tree[j].parent = TParent(id) => j <= TPos(id)
InSubtree(n, a) == \E k \in 0..Len(tree) : Up(tree, n, k) = a
\* The positions of the nodes inserted before id under the same parent, and
\* the number of nodes in the subtree of a.
EarlierSiblings(id) ==
    {j \in 1..Len(tree) : tree[j].parent = TParent(id) /\ j < TPos(id)}
SubtreeSize(a) == Cardinality({n \in KeySet(tree) : InSubtree(n, a)})
RECURSIVE ChildPrefix(_)
\* The prefix of the lines of the children of x: one segment for x and for
\* each ancestor of x strictly below the root, outermost first.
ChildPrefix(x) ==
    IF TParent(x) = None THEN <<>>
    ELSE Append(ChildPrefix(TParent(x)), IF IsLastChild(x) THEN GapSeg ELSE BarSeg)
\* The index of the line printed for a node.
LineOf(id) == CHOOSE i \in 1..Len(call_tree_output) : call_tree_output[i].nid = id

\* C21: in the connector-style rendering of a well-formed forest each root
\* is printed with no prefix or connector; each other line has the
\* last-child connector iff its node is the last child of its parent and the
\* non-last connector otherwise, preceded by one segment per ancestor
\* strictly below the root (blank for a last child, vertical bar otherwise);
\* children are visited in the order of their insertion into the table;
\* exactly one blank line stands between the subtrees of consecutive roots
\* and none after the last.
C21_ConnectorRendering ==
    runPc = "export" =>
        LET out == call_tree_output IN
        /\ \A n \in KeySet(tree) :
              Cardinality({i \in 1..Len(out) : out[i].nid = n}) = 1
        /\ \A i \in 1..Len(out) :
              IF out[i].nid = None
              THEN /\ out[i] = BlankLine
                   /\ 1 < i /\ i < Len(out)
                   /\ out[i - 1].nid # None
                   /\ out[i + 1].nid # None /\ TParent(out[i + 1].nid) = None
              ELSE IF TParent(out[i].nid) = None
              THEN /\ out[i].prefix = <<>> /\ out[i].connector = ""
                   /\ i > 1 => out[i - 1] = BlankLine
              ELSE /\ out[i].connector =
                         IF IsLastChild(out[i].nid) THEN LastConn ELSE MidConn
                   /\ out[i].prefix = ChildPrefix(TParent(out[i].nid))
        /\ \A b \in KeySet(tree) :
              LET before == EarlierSiblings(b) IN
              IF before = {}
              THEN LineOf(b) = IF TParent(b) = None THEN 1 ELSE LineOf(TParent(b)) + 1
              ELSE LET a == tree[CHOOSE j \in before : \A k \in before : k <= j].id
                   IN LineOf(b) = LineOf(a) + SubtreeSize(a)
                                  + IF TParent(b) = None THEN 1 ELSE 0
\* A line under a non-last child, whose siblings were inserted against
\* their id order.
C21_Witness ==
    /\ runPc = "export"
    /\ \E i \in 1..Len(call_tree_output) :
          /\ call_tree_output[i].prefix = <<BarSeg>>
          /\ call_tree_output[i].connector = LastConn
    /\ \E a, b \in KeySet(tree) :
          /\ TParent(a) = TParent(b) /\ TParent(a) # None
          /\ a > b /\ TPos(a) < TPos(b) /\ LineOf(a) < LineOf(b)

\* The steps of a run: it begins, it is rejected by one of the three checks,
\* it ends, it ends because the script raised.
RunBegins == runPc = "idle" /\ runPc' = "prelude"
RunIsRejected ==
    /\ runPc = "idle" /\ runPc' = "idle"
    /\ ~pyodideReady \/ code = "" \/ callExpression = ""
    /\ <<error, result, stdout, treeOutput, graphData>>'
          # <<error, result, stdout, treeOutput, graphData>>
RunEnds == runPc # "idle" /\ runPc' = "idle"
ScriptRaises == RunEnds /\ runPc \in {"reset", "eval"}
OutputsCleared ==
    result' = Null /\ stdout' = "" /\ treeOutput' = "" /\ graphData' = Null
LifecycleStep ==
    /\ RunBegins => (error' = "" /\ OutputsCleared)
    /\ RunIsRejected => (error' # "" /\ OutputsCleared /\ ~isRunning')
    /\ ScriptRaises => (error' # "" /\ OutputsCleared)
    /\ RunEnds => ~isRunning'

\* C22: over any sequence of runs, every run first clears error, result,
\* stdout, tree text and graph data; a run that is rejected (runtime not
\* loaded, blank code, blank call expression) or whose evaluation fails ends
\* with a non-empty error, result = null, empty tree text and no graph
\* data, showing nothing of an earlier run; and isRunning is false after
\* every run, successful or not.
C22_RunLifecycle == [][LifecycleStep]_vars
\* A run has failed after recording a table, and shows only its error.
C22_Witness ==
    /\ runPc = "idle" /\ ~isRunning
    /\ tree # <<>>
    /\ Carries(error, "ValueError")
    /\ result = Null /\ treeOutput = "" /\ graphData = Null

====
